---- MODULE Spec2Model ----
(***************************************************************************)
(* Model of the trading-account ledger of 3_crew/engineering_team, in its  *)
(* two implementations:                                                    *)
(*   output/accounts.py   (Account with cash_balance, dict records)        *)
(*   output2/accounts.py  (Account with balance, Transaction objects)      *)
(*                                                                         *)
(* Both accounts are driven side by side by the same sequence of calls.    *)
(*                                                                         *)
(* Money is a fixed-point decimal counted in thousandths of a dollar (so   *)
(* 150000 is $150.00 and 4 is $0.004): round(x, 2) is then rounding to a   *)
(* multiple of 10.  The binary rounding error of Python floats is not      *)
(* modelled; sums and differences are exact.                               *)
(* A quantity of shares is counted in tenths of a share (10 is one share,   *)
(* 15 is 1.5 shares): isinstance(quantity, int) is then being a multiple   *)
(* of 10.  An amount passed to deposit or withdraw is a Python value: a    *)
(* number, a string or None.                                               *)
(* The timestamp of a record (datetime.now()) is not modelled.             *)
(* An optional value (None / an absent dict key) is the empty sequence,    *)
(* a present one is a one-element sequence.                                *)
(***************************************************************************)
EXTENDS Integers, Sequences, FiniteSets, TLC

VARIABLES
    user_account,  \* the Account of output/accounts.py
    account,       \* the Account of output2/accounts.py
    call,          \* the last call made on both accounts
    raised,        \* what that call raised in output/accounts.py
    raised2,       \* what that call raised in output2/accounts.py
    prev,          \* both accounts as they were before that call
    history,       \* the list get_transaction_history() last returned to the caller
    history2,      \* the list get_transactions() last returned to the caller
    holdings_copy, \* the dict get_holdings() of output/accounts.py last returned
    holdings_copy2, \* the dict get_holdings() of output2/accounts.py last returned
    threads,       \* the UI callbacks running on the shared account, one per thread
    interleaved,   \* a call has written the account between the funds check and
                   \* the balance update of another call
    returned,      \* what the last call returned
    PROVIDER_DEFAULTS  \* _PROVIDER_DEFAULTS of simple_agent.py, set at import

vars == <<user_account, account, call, raised, raised2, prev, history, history2,
          holdings_copy, holdings_copy2, threads, interleaved, returned,
          PROVIDER_DEFAULTS>>

(***************************************************************************)
(* Bounds of the exploration.                                              *)
(***************************************************************************)
MaxTx == 3

AmountNumbers == {-100000, 0, 4, 100000, 300000}

Quantities == {-10, 0, 10, 15, 20}

Symbols == {"AAPL", "aapl", "UNKNOWN"}

InjectedSymbols == {"UNKNOWN"}

InjectedQuantities == {10, 50}

\* what a caller writes into the amount of a record it got from the history
WrittenAmounts == {0}

\* what a caller writes into the dict it got from get_holdings()
WrittenSymbols == {"AAPL", "TSLA"}
WrittenQuantities == {50}

(***************************************************************************)
(* Values.                                                                 *)
(***************************************************************************)
None == <<>>

\* Python values passed as an amount
Float(v) == [type |-> "float", v |-> v]

Str == [type |-> "str", v |-> 0]

NoneType == [type |-> "NoneType", v |-> 0]

Amounts == {Float(v) : v \in AmountNumbers} \cup {Str, NoneType}

\* the arguments of the calls of test_get_portfolio_value and
\* test_get_profit_or_loss: deposits and withdrawals of 500, 1000 and 5000,
\* trades of 5 and 10 shares
TestAmounts == {Float(500000), Float(1000000), Float(5000000)}
TestSymbols == {"AAPL", "TSLA"}
TestQuantities == {50, 100}

\* the symbols get_share_price is called with
OracleSymbols == {"AAPL", "aapl", "Aapl", "GOOGL", "googl", "TSLA", "tsla",
                  "UNKNOWN", "unknown", "MSFT"}

\* model names, as the sequences of their characters
gpt_4o == <<"g", "p", "t", "-", "4", "o">>
GPT_4 == <<"G", "P", "T", "-", "4">>
deepseek_chat == <<"d", "e", "e", "p", "s", "e", "e", "k", "-", "c", "h", "a", "t">>
DeepSeek_R1 == <<"D", "e", "e", "p", "S", "e", "e", "k", "-", "R", "1">>
gemini_pro == <<"g", "e", "m", "i", "n", "i", "-", "p", "r", "o">>
GEMINI == <<"G", "E", "M", "I", "N", "I">>
qwen == <<"q", "w", "e", "n">>
gem == <<"g", "e", "m">>

\* the arguments of the calls of the factories of simple_agent.py, and the
\* values of DEEPSEEK_API_KEY and GEMINI_API_KEY in the environment
Models == {gpt_4o, GPT_4, deepseek_chat, DeepSeek_R1, gemini_pro, GEMINI, qwen, gem}
ApiKeys == {<<>>, <<"">>, <<"sk-caller">>}
BaseUrls == {<<>>, <<"">>, <<"https://gateway/v1">>}
DeepseekKeys == {<<>>, <<"">>, <<"sk-deepseek">>}
GeminiKeys == {<<>>, <<"">>, <<"sk-gemini">>}

\* the model_info of the example in the docstring of openaichatcompletionsclient
example_model_info ==
    [vision |-> FALSE, function_calling |-> TRUE, json_output |-> TRUE,
     family |-> "deepseek", structured_output |-> TRUE]

ModelInfos == {<<>>, <<example_model_info>>}

\* well-formed arguments: amounts that are whole cents (one cent, 150 and
\* 300 dollars, zero and a negative amount), whole positive numbers of
\* shares, uppercase symbols of the price table and outside it
WellFormedAmountNumbers == {-100000, 0, 10, 150000, 300000}
WellFormedSymbols == {"AAPL", "TSLA", "UNKNOWN"}
WellFormedQuantities == {10, 20}

\* the threads that run UI callbacks, and the arguments of their calls
Threads == {1, 2}
ThreadAmounts == {Float(100000), Float(300000)}
ThreadSymbols == {"AAPL"}
ThreadQuantities == {10, 20}

\* isinstance(amount, (int, float))
is_number(amount) == amount.type \in {"int", "float"}

\* isinstance(quantity, int)
is_int(quantity) == quantity % 10 = 0

\* price x quantity, the quantity being in tenths of a share
times(price, quantity) == (price * quantity) \div 10

Some(v) == <<v>>

NoError == [exc |-> "None", msg |-> "", sym |-> "", nums |-> <<>>]

Raise(exc, msg, sym, nums) == [exc |-> exc, msg |-> msg, sym |-> sym, nums |-> nums]

\* what a call hands back: the exception it raised, or the value it returned
\* (None for deposit, withdraw, buy and sell)
Return(v) == [raised |-> NoError, value |-> Some(v)]

NoReturn == [raised |-> NoError, value |-> None]

\* str.upper() on the symbols of the model
upper(symbol) ==
    CASE symbol = "aapl" -> "AAPL"
      [] symbol = "googl" -> "GOOGL"
      [] symbol = "tsla" -> "TSLA"
      [] symbol = "unknown" -> "UNKNOWN"
      [] symbol = "Aapl" -> "AAPL"
      [] OTHER -> symbol

\* round(x, 2) on thousandths: the nearest multiple of 10, an exact half
\* going to the even hundredth
round2(x) ==
    LET r == x % 10
        down == x - r
    IN  IF r < 5 THEN down
        ELSE IF r > 5 THEN down + 10
        ELSE IF (down \div 10) % 2 = 0 THEN down ELSE down + 10

(***************************************************************************)
(* simple_agent.py: three factories that pick the API key and the base URL *)
(* of a client from the model name.  name, instructions and **kwargs are   *)
(* handed on as they are and left out.                                     *)
(***************************************************************************)
\* str.lower() on the characters of the model names
lower_char(c) ==
    CASE c = "G" -> "g"
      [] c = "P" -> "p"
      [] c = "T" -> "t"
      [] c = "D" -> "d"
      [] c = "S" -> "s"
      [] c = "R" -> "r"
      [] c = "E" -> "e"
      [] c = "M" -> "m"
      [] c = "I" -> "i"
      [] c = "N" -> "n"
      [] OTHER -> c

lower(s) == [i \in 1..Len(s) |-> lower_char(s[i])]

startswith(s, prefix) == Len(s) >= Len(prefix) /\ SubSeq(s, 1, Len(prefix)) = prefix

\* the truth value of an Optional[str]: None and "" are false
truthy(x) == x # None /\ x[1] # ""

\* _PROVIDER_DEFAULTS, from the two environment variables read at import
provider_defaults(DEEPSEEK_API_KEY, GEMINI_API_KEY) ==
    [deepseek |-> <<DEEPSEEK_API_KEY, Some("https://api.deepseek.com/v1")>>,
     gemini |-> <<GEMINI_API_KEY,
                  Some("https://generativelanguage.googleapis.com/v1beta/openai/")>>]

\* what a factory builds: client is None for the default OpenAI path
Built(class, model, client, model_info) ==
    Return([class |-> class, model |-> model, client |-> client, model_info |-> model_info])

\* a variant that falls back to the default OpenAI path instead of raising
Unsupported_builds_default(model) ==
    [raised |-> NoError,
     value |-> Some([class |-> "Agent", model |-> model, client |-> None,
                     model_info |-> None])]

Unsupported(model) ==
    [raised |-> Raise("ValueError", "model name not supported with this api_key and base_url",
                      "", model),
     value |-> None]

\* the lookup of agent and chatopenai: the first provider the model name
\* starts with replaces both api_key and base_url
lookup(model_lower, api_key, base_url) ==
    IF api_key = None \/ base_url = None
    THEN IF startswith(model_lower, <<"d", "e", "e", "p", "s", "e", "e", "k">>)
         THEN PROVIDER_DEFAULTS.deepseek
         ELSE IF startswith(model_lower, <<"g", "e", "m", "i", "n", "i">>)
         THEN PROVIDER_DEFAULTS.gemini
         ELSE <<api_key, base_url>>
    ELSE <<api_key, base_url>>

agent(model, api_key0, base_url0) ==
    LET model_lower == lower(model)
    IN  IF startswith(model_lower, <<"g", "p", "t">>)
        THEN Built("Agent", model, None, None)
        ELSE LET found == lookup(model_lower, api_key0, base_url0)
                 api_key == found[1]
                 base_url == found[2]
             IN  IF truthy(api_key) /\ truthy(base_url)
                 THEN Built("Agent", model,
                            Some([api_key |-> api_key, base_url |-> base_url]), None)
                 ELSE Unsupported(model)

chatopenai(model, api_key0, base_url0) ==
    LET model_lower == lower(model)
    IN  IF startswith(model_lower, <<"g", "p", "t">>)
        THEN Built("ChatOpenAI", model, None, None)
        ELSE LET found == lookup(model_lower, api_key0, base_url0)
                 api_key == found[1]
                 base_url == found[2]
             IN  IF truthy(api_key) /\ truthy(base_url)
                 THEN Built("ChatOpenAI", model,
                            Some([api_key |-> api_key, base_url |-> base_url]), None)
                 ELSE Unsupported(model)

\* the model_info that openaichatcompletionsclient assigns for deepseek
deepseek_model_info ==
    [vision |-> FALSE, function_calling |-> TRUE, json_output |-> FALSE,
     family |-> "deepseek", structured_output |-> FALSE]

openaichatcompletionsclient(model, api_key0, base_url0, model_info0) ==
    LET model_lower == lower(model)
    IN  IF startswith(model_lower, <<"g", "p", "t">>)
        THEN Built("OpenAIChatCompletionClient", model, None, None)
        ELSE LET looked == (api_key0 = None \/ base_url0 = None)
                             /\ startswith(model_lower,
                                           <<"d", "e", "e", "p", "s", "e", "e", "k">>)
                 api_key == IF looked THEN PROVIDER_DEFAULTS.deepseek[1] ELSE api_key0
                 base_url == IF looked THEN PROVIDER_DEFAULTS.deepseek[2] ELSE base_url0
                 model_info == IF looked THEN Some(deepseek_model_info) ELSE model_info0
             IN  IF truthy(api_key) /\ truthy(base_url)
                 THEN Built("OpenAIChatCompletionClient", model,
                            Some([api_key |-> api_key, base_url |-> base_url]), model_info)
                 ELSE Unsupported(model)

(***************************************************************************)
(* get_share_price: the fixed price table, looked up by symbol.upper().    *)
(***************************************************************************)
prices == [AAPL |-> 150000, GOOGL |-> 2800000, TSLA |-> 700000]

\* a lookup by the symbol as given, without upper()
get_share_price_case_sensitive(symbol) ==
    IF symbol \in DOMAIN prices
    THEN [raised |-> NoError, price |-> prices[symbol]]
    ELSE [raised |-> Raise("ValueError", "Unknown symbol", symbol, <<>>), price |-> 0]

get_share_price(symbol) ==
    IF upper(symbol) \in DOMAIN prices
    THEN [raised |-> NoError, price |-> prices[upper(symbol)]]
    ELSE [raised |-> Raise("ValueError", "Unknown symbol", symbol, <<>>), price |-> 0]

(***************************************************************************)
(* dict helpers.                                                           *)
(***************************************************************************)
dict_get(d, k, default) == IF k \in DOMAIN d THEN d[k] ELSE default

dict_set(d, k, v) == [x \in DOMAIN d \cup {k} |-> IF x = k THEN v ELSE d[x]]

dict_del(d, k) == [x \in DOMAIN d \ {k} |-> d[x]]

EmptyDict == [x \in {} |-> 0]

\* a reference to the same dict object: what the caller writes is written
\* into the dict of the account
dict_same_object(d) == [object |-> "self.holdings", items |-> d]

\* dict.copy(): a new dict object with the same keys and values; the values
\* are numbers, which cannot be changed in place
dict_copy(d) == [object |-> "new", items |-> d]

\* d[k] = v on the dict a reference points to; holdings is the account's dict
setitem(ref, holdings, k, v) ==
    IF ref.object = "new"
    THEN [ref |-> [ref EXCEPT !.items = dict_set(@, k, v)], holdings |-> holdings]
    ELSE [ref |-> [ref EXCEPT !.items = dict_set(holdings, k, v)],
          holdings |-> dict_set(holdings, k, v)]

\* del d[k] on the dict a reference points to
delitem(ref, holdings, k) ==
    IF ref.object = "new"
    THEN [ref |-> [ref EXCEPT !.items = dict_del(@, k)], holdings |-> holdings]
    ELSE [ref |-> [ref EXCEPT !.items = dict_del(holdings, k)],
          holdings |-> dict_del(holdings, k)]

(***************************************************************************)
(* output/accounts.py                                                      *)
(***************************************************************************)
Account_init == [cash_balance |-> 0, holdings |-> EmptyDict, transactions |-> <<>>]

\* a variant that inserts the record at the front of the list
record_transaction_at_front(self, transaction_type, amount, symbol, quantity, price_per_share) ==
    [self EXCEPT !.transactions = <<
        [type |-> transaction_type,
         amount |-> round2(amount),
         symbol |-> IF symbol # None THEN Some(upper(symbol[1])) ELSE None,
         quantity |-> quantity,
         price_per_share |-> IF price_per_share # None
                             THEN Some(round2(price_per_share[1])) ELSE None]>> \o @]

\* a variant that records the price of a share as the amount of a trade
record_transaction_amount_is_price(self, transaction_type, amount, symbol, quantity, price_per_share) ==
    [self EXCEPT !.transactions = Append(@,
        [type |-> transaction_type,
         amount |-> IF price_per_share # None THEN round2(price_per_share[1])
                    ELSE round2(amount),
         symbol |-> IF symbol # None THEN Some(upper(symbol[1])) ELSE None,
         quantity |-> quantity,
         price_per_share |-> IF price_per_share # None
                             THEN Some(round2(price_per_share[1])) ELSE None])]

record_transaction(self, transaction_type, amount, symbol, quantity, price_per_share) ==
    [self EXCEPT !.transactions = Append(@,
        [type |-> transaction_type,
         amount |-> round2(amount),
         symbol |-> IF symbol # None THEN Some(upper(symbol[1])) ELSE None,
         quantity |-> quantity,
         price_per_share |-> IF price_per_share # None
                             THEN Some(round2(price_per_share[1])) ELSE None])]

deposit(self, amount) ==
    IF ~is_number(amount) \/ amount.v <= 0
    THEN [self |-> self,
          raised |-> Raise("ValueError", "Deposit amount must be a positive number.", "", <<>>)]
    ELSE [self |-> record_transaction([self EXCEPT !.cash_balance = @ + amount.v],
                                      "deposit", amount.v, None, None, None),
          raised |-> NoError]

\* withdraw refusing an amount equal to the balance
withdraw_less_than_balance(self, amount) ==
    IF ~is_number(amount) \/ amount.v <= 0
    THEN [self |-> self,
          raised |-> Raise("ValueError", "Withdrawal amount must be a positive number.", "", <<>>)]
    ELSE IF amount.v >= self.cash_balance
    THEN [self |-> self,
          raised |-> Raise("InsufficientFundsError", "Insufficient funds. Attempted to withdraw",
                           "", <<amount.v, self.cash_balance>>)]
    ELSE [self |-> record_transaction([self EXCEPT !.cash_balance = @ - amount.v],
                                      "withdrawal", amount.v, None, None, None),
          raised |-> NoError]

\* withdraw without the comparison of the amount with the balance
withdraw_no_funds_check(self, amount) ==
    IF ~is_number(amount) \/ amount.v <= 0
    THEN [self |-> self,
          raised |-> Raise("ValueError", "Withdrawal amount must be a positive number.", "", <<>>)]
    ELSE [self |-> record_transaction([self EXCEPT !.cash_balance = @ - amount.v],
                                      "withdrawal", amount.v, None, None, None),
          raised |-> NoError]

withdraw(self, amount) ==
    IF ~is_number(amount) \/ amount.v <= 0
    THEN [self |-> self,
          raised |-> Raise("ValueError", "Withdrawal amount must be a positive number.", "", <<>>)]
    ELSE IF amount.v > self.cash_balance
    THEN [self |-> self,
          raised |-> Raise("InsufficientFundsError", "Insufficient funds. Attempted to withdraw",
                           "", <<amount.v, self.cash_balance>>)]
    ELSE [self |-> record_transaction([self EXCEPT !.cash_balance = @ - amount.v],
                                      "withdrawal", amount.v, None, None, None),
          raised |-> NoError]

\* the statements of withdraw after its checks: the balance it reads is the
\* balance at that moment
withdraw_update(self, amount) ==
    record_transaction([self EXCEPT !.cash_balance = @ - amount.v],
                       "withdrawal", amount.v, None, None, None)

\* the statements of buy_shares after its checks
buy_shares_update(self, symbol0, quantity) ==
    LET symbol == upper(symbol0)
        price_per_share == get_share_price(symbol).price
        total_cost == times(price_per_share, quantity)
    IN  record_transaction(
            [self EXCEPT !.cash_balance = @ - total_cost,
                         !.holdings = dict_set(@, symbol, dict_get(@, symbol, 0) + quantity)],
            "buy", total_cost, Some(symbol), Some(quantity), Some(price_per_share))

\* buy_shares with the cash taken before the funds check
buy_shares_debit_before_check(self, symbol0, quantity) ==
    IF ~is_int(quantity) \/ quantity <= 0
    THEN [self |-> self,
          raised |-> Raise("ValueError", "Quantity must be a positive integer.", "", <<>>)]
    ELSE
    LET symbol == upper(symbol0)
        looked == get_share_price(symbol)
        total_cost == times(looked.price, quantity)
        debited == [self EXCEPT !.cash_balance = @ - total_cost]
    IN  IF looked.raised # NoError
        THEN [self |-> self, raised |-> looked.raised]
        ELSE IF debited.cash_balance < 0
        THEN [self |-> debited,
              raised |-> Raise("InsufficientFundsError", "Insufficient funds to buy",
                               symbol, <<quantity, total_cost, self.cash_balance>>)]
        ELSE [self |-> record_transaction(
                         [debited EXCEPT !.holdings = dict_set(@, symbol,
                                                        dict_get(@, symbol, 0) + quantity)],
                         "buy", total_cost, Some(symbol), Some(quantity),
                         Some(looked.price)),
              raised |-> NoError]

buy_shares(self, symbol0, quantity) ==
    IF ~is_int(quantity) \/ quantity <= 0
    THEN [self |-> self,
          raised |-> Raise("ValueError", "Quantity must be a positive integer.", "", <<>>)]
    ELSE
    LET symbol == upper(symbol0)
        looked == get_share_price(symbol)
        price_per_share == looked.price
        total_cost == times(price_per_share, quantity)
    IN  IF looked.raised # NoError
        THEN [self |-> self, raised |-> looked.raised]
        ELSE IF total_cost > self.cash_balance
        THEN [self |-> self,
              raised |-> Raise("InsufficientFundsError", "Insufficient funds to buy",
                               symbol, <<quantity, total_cost, self.cash_balance>>)]
        ELSE [self |-> record_transaction(
                         [self EXCEPT !.cash_balance = @ - total_cost,
                                      !.holdings = dict_set(@, symbol,
                                                     dict_get(@, symbol, 0) + quantity)],
                         "buy", total_cost, Some(symbol), Some(quantity),
                         Some(price_per_share)),
              raised |-> NoError]

\* sell_shares without the removal of a symbol whose quantity reaches zero
sell_shares_keeps_empty_key(self, symbol0, quantity) ==
    IF ~is_int(quantity) \/ quantity <= 0
    THEN [self |-> self,
          raised |-> Raise("ValueError", "Quantity must be a positive integer.", "", <<>>)]
    ELSE
    LET symbol == upper(symbol0)
        looked == get_share_price(symbol)
        total_proceeds == times(looked.price, quantity)
    IN  IF symbol \notin DOMAIN self.holdings \/ self.holdings[symbol] < quantity
        THEN [self |-> self,
              raised |-> Raise("InsufficientSharesError", "Insufficient shares to sell",
                               symbol, <<quantity, dict_get(self.holdings, symbol, 0)>>)]
        ELSE IF looked.raised # NoError
        THEN [self |-> self, raised |-> looked.raised]
        ELSE [self |-> record_transaction(
                         [self EXCEPT !.cash_balance = @ + total_proceeds,
                                      !.holdings = dict_set(@, symbol, @[symbol] - quantity)],
                         "sell", total_proceeds, Some(symbol), Some(quantity),
                         Some(looked.price)),
              raised |-> NoError]

\* sell_shares with the price looked up before the holdings check
sell_shares_price_first(self, symbol0, quantity) ==
    IF ~is_int(quantity) \/ quantity <= 0
    THEN [self |-> self,
          raised |-> Raise("ValueError", "Quantity must be a positive integer.", "", <<>>)]
    ELSE
    LET symbol == upper(symbol0)
        looked == get_share_price(symbol)
        total_proceeds == times(looked.price, quantity)
        left == self.holdings[symbol] - quantity
    IN  IF looked.raised # NoError
        THEN [self |-> self, raised |-> looked.raised]
        ELSE IF symbol \notin DOMAIN self.holdings \/ self.holdings[symbol] < quantity
        THEN [self |-> self,
              raised |-> Raise("InsufficientSharesError", "Insufficient shares to sell",
                               symbol, <<quantity, dict_get(self.holdings, symbol, 0)>>)]
        ELSE [self |-> record_transaction(
                         [self EXCEPT !.cash_balance = @ + total_proceeds,
                                      !.holdings = IF left = 0 THEN dict_del(@, symbol)
                                                   ELSE dict_set(@, symbol, left)],
                         "sell", total_proceeds, Some(symbol), Some(quantity),
                         Some(looked.price)),
              raised |-> NoError]

sell_shares(self, symbol0, quantity) ==
    IF ~is_int(quantity) \/ quantity <= 0
    THEN [self |-> self,
          raised |-> Raise("ValueError", "Quantity must be a positive integer.", "", <<>>)]
    ELSE
    LET symbol == upper(symbol0)
        looked == get_share_price(symbol)
        price_per_share == looked.price
        total_proceeds == times(price_per_share, quantity)
        left == self.holdings[symbol] - quantity
    IN  IF symbol \notin DOMAIN self.holdings \/ self.holdings[symbol] < quantity
        THEN [self |-> self,
              raised |-> Raise("InsufficientSharesError", "Insufficient shares to sell",
                               symbol, <<quantity, dict_get(self.holdings, symbol, 0)>>)]
        ELSE IF looked.raised # NoError
        THEN [self |-> self, raised |-> looked.raised]
        ELSE [self |-> record_transaction(
                         [self EXCEPT !.cash_balance = @ + total_proceeds,
                                      !.holdings = IF left = 0 THEN dict_del(@, symbol)
                                                   ELSE dict_set(@, symbol, left)],
                         "sell", total_proceeds, Some(symbol), Some(quantity),
                         Some(price_per_share)),
              raised |-> NoError]

get_holdings(self) == self.holdings

RECURSIVE holdings_value(_, _)
\* the loop of get_portfolio_value: a symbol whose price lookup raises is skipped
holdings_value(h, keys) ==
    IF keys = {} THEN 0
    ELSE LET symbol == CHOOSE k \in keys : TRUE
             looked == get_share_price(symbol)
         IN  (IF looked.raised = NoError THEN times(looked.price, h[symbol]) ELSE 0)
             + holdings_value(h, keys \ {symbol})

get_portfolio_value(self) ==
    [raised |-> NoError,
     value |-> round2(self.cash_balance + holdings_value(self.holdings, DOMAIN self.holdings))]

RECURSIVE sum_amounts(_, _)
\* sum(t["amount"] for t in transactions if t["type"] == type)
sum_amounts(txs, type) ==
    IF txs = <<>> THEN 0
    ELSE (IF Head(txs).type = type THEN Head(txs).amount ELSE 0) + sum_amounts(Tail(txs), type)

\* total_deposits with the withdrawals taken off the deposits
total_deposits_net_of_withdrawals(self) ==
    sum_amounts(self.transactions, "deposit") - sum_amounts(self.transactions, "withdrawal")

total_deposits(self) == sum_amounts(self.transactions, "deposit")

\* get_profit_or_loss on the cash alone, the holdings forgotten
get_profit_or_loss_cash_only(self) ==
    [raised |-> NoError,
     value |-> round2(round2(self.cash_balance) - total_deposits(self))]

get_profit_or_loss(self) ==
    [raised |-> NoError,
     value |-> round2(get_portfolio_value(self).value - total_deposits(self))]

\* list.copy(): a new list holding the same objects.  An element of the copy
\* is a reference to a record of the account, written as the position of
\* that record in self.transactions; 0 is an object of the caller's own.
list_copy(list) == [i \in 1..Len(list) |-> i]

get_transaction_history(self) == self.transactions

(***************************************************************************)
(* output2/accounts.py                                                     *)
(***************************************************************************)
Account_init2 == [balance |-> 0, holdings |-> EmptyDict, transactions |-> <<>>,
                  initial_deposit |-> 0, next_transaction_id |-> 1]

\* a variant that leaves the id counter as it is
add_transaction_same_id(self, type, amount, symbol, quantity, price_per_share) ==
    [self EXCEPT !.transactions = Append(@,
                    [transaction_id |-> self.next_transaction_id,
                     type |-> type,
                     amount |-> amount,
                     symbol |-> symbol,
                     quantity |-> quantity,
                     price_per_share |-> price_per_share])]

add_transaction(self, type, amount, symbol, quantity, price_per_share) ==
    [self EXCEPT !.transactions = Append(@,
                    [transaction_id |-> self.next_transaction_id,
                     type |-> type,
                     amount |-> amount,
                     symbol |-> symbol,
                     quantity |-> quantity,
                     price_per_share |-> price_per_share]),
                 !.next_transaction_id = @ + 1]

deposit2(self, amount) ==
    IF ~is_number(amount)
    THEN [self |-> self,
          raised |-> Raise("TypeError", "'<=' not supported between instances", "", <<>>)]
    ELSE IF amount.v <= 0
    THEN [self |-> self,
          raised |-> Raise("ValueError", "Deposit amount must be positive", "", <<>>)]
    ELSE [self |-> add_transaction([self EXCEPT !.balance = @ + amount.v,
                                                !.initial_deposit = @ + amount.v],
                                   "DEPOSIT", amount.v, None, None, None),
          raised |-> NoError]

\* withdraw without the funds check
withdraw2_no_funds_check(self, amount) ==
    IF ~is_number(amount)
    THEN [self |-> self,
          raised |-> Raise("TypeError", "'<=' not supported between instances", "", <<>>)]
    ELSE IF amount.v <= 0
    THEN [self |-> self,
          raised |-> Raise("ValueError", "Withdrawal amount must be positive", "", <<>>)]
    ELSE [self |-> add_transaction([self EXCEPT !.balance = @ - amount.v],
                                   "WITHDRAWAL", amount.v, None, None, None),
          raised |-> NoError]

withdraw2(self, amount) ==
    IF ~is_number(amount)
    THEN [self |-> self,
          raised |-> Raise("TypeError", "'<=' not supported between instances", "", <<>>)]
    ELSE IF amount.v <= 0
    THEN [self |-> self,
          raised |-> Raise("ValueError", "Withdrawal amount must be positive", "", <<>>)]
    ELSE IF amount.v > self.balance
    THEN [self |-> self,
          raised |-> Raise("ValueError", "Insufficient funds for withdrawal", "", <<>>)]
    ELSE [self |-> add_transaction([self EXCEPT !.balance = @ - amount.v],
                                   "WITHDRAWAL", amount.v, None, None, None),
          raised |-> NoError]

\* a variant taking the amount twice
withdraw2_update_twice(self, amount) ==
    add_transaction([self EXCEPT !.balance = @ - 2 * amount.v],
                    "WITHDRAWAL", amount.v, None, None, None)

\* the statements of withdraw after its checks
withdraw2_update(self, amount) ==
    add_transaction([self EXCEPT !.balance = @ - amount.v],
                    "WITHDRAWAL", amount.v, None, None, None)

\* the statements of buy after its checks
buy_update(self, symbol, quantity) ==
    LET price == get_share_price(symbol).price
        cost == times(price, quantity)
        current_qty == dict_get(self.holdings, symbol, 0)
    IN  add_transaction(
            [self EXCEPT !.balance = @ - cost,
                         !.holdings = dict_set(@, symbol, current_qty + quantity)],
            "BUY", cost, Some(symbol), Some(quantity), Some(price))

\* buy with the price looked up before the quantity check
buy_price_first(self, symbol, quantity) ==
    LET looked == get_share_price(symbol)
        cost == times(looked.price, quantity)
        current_qty == dict_get(self.holdings, symbol, 0)
    IN  IF looked.raised # NoError
        THEN [self |-> self, raised |-> looked.raised]
        ELSE IF quantity <= 0
        THEN [self |-> self,
              raised |-> Raise("ValueError", "Buy quantity must be positive", "", <<>>)]
        ELSE IF cost > self.balance
        THEN [self |-> self,
              raised |-> Raise("ValueError", "Insufficient funds to buy shares", "", <<>>)]
        ELSE [self |-> add_transaction(
                         [self EXCEPT !.balance = @ - cost,
                                      !.holdings = dict_set(@, symbol, current_qty + quantity)],
                         "BUY", cost, Some(symbol), Some(quantity), Some(looked.price)),
              raised |-> NoError]

buy(self, symbol, quantity) ==
    IF quantity <= 0
    THEN [self |-> self,
          raised |-> Raise("ValueError", "Buy quantity must be positive", "", <<>>)]
    ELSE
    LET looked == get_share_price(symbol)
        price == looked.price
        cost == times(price, quantity)
        current_qty == dict_get(self.holdings, symbol, 0)
    IN  IF looked.raised # NoError
        THEN [self |-> self, raised |-> looked.raised]
        ELSE IF cost > self.balance
        THEN [self |-> self,
              raised |-> Raise("ValueError", "Insufficient funds to buy shares", "", <<>>)]
        ELSE [self |-> add_transaction(
                         [self EXCEPT !.balance = @ - cost,
                                      !.holdings = dict_set(@, symbol, current_qty + quantity)],
                         "BUY", cost, Some(symbol), Some(quantity), Some(price)),
              raised |-> NoError]

\* sell without the removal of a symbol whose quantity reaches zero
sell_keeps_empty_key(self, symbol, quantity) ==
    IF quantity <= 0
    THEN [self |-> self,
          raised |-> Raise("ValueError", "Sell quantity must be positive", "", <<>>)]
    ELSE
    LET current_qty == dict_get(self.holdings, symbol, 0)
        looked == get_share_price(symbol)
        revenue == times(looked.price, quantity)
    IN  IF current_qty < quantity
        THEN [self |-> self,
              raised |-> Raise("ValueError", "Insufficient shares to sell", symbol, <<>>)]
        ELSE IF looked.raised # NoError
        THEN [self |-> self, raised |-> looked.raised]
        ELSE [self |-> add_transaction(
                         [self EXCEPT !.balance = @ + revenue,
                                      !.holdings = dict_set(@, symbol, current_qty - quantity)],
                         "SELL", revenue, Some(symbol), Some(quantity), Some(looked.price)),
              raised |-> NoError]

\* sell with the revenue of one share whatever the quantity
sell_revenue_of_one_share(self, symbol, quantity) ==
    IF quantity <= 0
    THEN [self |-> self,
          raised |-> Raise("ValueError", "Sell quantity must be positive", "", <<>>)]
    ELSE
    LET current_qty == dict_get(self.holdings, symbol, 0)
        looked == get_share_price(symbol)
        revenue == looked.price
        new_qty == current_qty - quantity
    IN  IF current_qty < quantity
        THEN [self |-> self,
              raised |-> Raise("ValueError", "Insufficient shares to sell", symbol, <<>>)]
        ELSE IF looked.raised # NoError
        THEN [self |-> self, raised |-> looked.raised]
        ELSE [self |-> add_transaction(
                         [self EXCEPT !.balance = @ + revenue,
                                      !.holdings = IF new_qty = 0 THEN dict_del(@, symbol)
                                                   ELSE dict_set(@, symbol, new_qty)],
                         "SELL", revenue, Some(symbol), Some(quantity), Some(looked.price)),
              raised |-> NoError]

\* a variant that keeps a symbol in the holdings when its quantity reaches zero
sell_keeps_empty_holding(self, symbol, quantity) ==
    IF quantity <= 0
    THEN [self |-> self,
          raised |-> Raise("ValueError", "Sell quantity must be positive", "", <<>>)]
    ELSE
    LET current_qty == dict_get(self.holdings, symbol, 0)
        looked == get_share_price(symbol)
        price == looked.price
        revenue == times(price, quantity)
        new_qty == current_qty - quantity
    IN  IF current_qty < quantity
        THEN [self |-> self,
              raised |-> Raise("ValueError", "Insufficient shares to sell", symbol, <<>>)]
        ELSE IF looked.raised # NoError
        THEN [self |-> self, raised |-> looked.raised]
        ELSE [self |-> add_transaction(
                         [self EXCEPT !.balance = @ + revenue,
                                      !.holdings = dict_set(@, symbol, new_qty)],
                         "SELL", revenue, Some(symbol), Some(quantity), Some(price)),
              raised |-> NoError]

sell(self, symbol, quantity) ==
    IF quantity <= 0
    THEN [self |-> self,
          raised |-> Raise("ValueError", "Sell quantity must be positive", "", <<>>)]
    ELSE
    LET current_qty == dict_get(self.holdings, symbol, 0)
        looked == get_share_price(symbol)
        price == looked.price
        revenue == times(price, quantity)
        new_qty == current_qty - quantity
    IN  IF current_qty < quantity
        THEN [self |-> self,
              raised |-> Raise("ValueError", "Insufficient shares to sell", symbol, <<>>)]
        ELSE IF looked.raised # NoError
        THEN [self |-> self, raised |-> looked.raised]
        ELSE [self |-> add_transaction(
                         [self EXCEPT !.balance = @ + revenue,
                                      !.holdings = IF new_qty = 0 THEN dict_del(@, symbol)
                                                   ELSE dict_set(@, symbol, new_qty)],
                         "SELL", revenue, Some(symbol), Some(quantity), Some(price)),
              raised |-> NoError]

RECURSIVE holdings_total2(_, _)
\* the loop of get_portfolio_value: the first price lookup that raises ends it
holdings_total2(h, keys) ==
    IF keys = {} THEN [raised |-> NoError, value |-> 0]
    ELSE LET symbol == CHOOSE k \in keys : TRUE
             looked == get_share_price(symbol)
             rest == holdings_total2(h, keys \ {symbol})
         IN  IF looked.raised # NoError THEN [raised |-> looked.raised, value |-> 0]
             ELSE IF rest.raised # NoError THEN rest
             ELSE [raised |-> NoError, value |-> times(looked.price, h[symbol]) + rest.value]

get_portfolio_value2(self) ==
    LET total == holdings_total2(self.holdings, DOMAIN self.holdings)
    IN  IF total.raised # NoError THEN total
        ELSE [raised |-> NoError, value |-> self.balance + total.value]

get_holdings2(self) == self.holdings

get_profit_loss(self) ==
    LET value == get_portfolio_value2(self)
    IN  IF value.raised # NoError THEN value
        ELSE [raised |-> NoError, value |-> value.value - self.initial_deposit]

get_transactions(self) == self.transactions

(***************************************************************************)
(* The state machine: each step is one call, made on both accounts.        *)
(***************************************************************************)
NoCall == [op |-> "none", amount |-> NoneType, symbol |-> "", quantity |-> 0]

\* a thread that runs no call
IdleThread == [pc |-> "idle", call |-> NoCall, raised |-> NoError, raised2 |-> NoError]

Snapshot == [user_account |-> user_account, account |-> account]

InitAccounts ==
    /\ user_account = Account_init
    /\ account = Account_init2
    /\ call = NoCall
    /\ raised = NoError
    /\ raised2 = NoError
    /\ prev = [user_account |-> Account_init, account |-> Account_init2]
    /\ history = <<>>
    /\ history2 = <<>>
    /\ holdings_copy = dict_copy(EmptyDict)
    /\ holdings_copy2 = dict_copy(EmptyDict)
    /\ threads = [t \in Threads |-> IdleThread]
    /\ interleaved = FALSE
    /\ returned = NoReturn

\* the accounts programs run with neither provider key in the environment
Init ==
    /\ InitAccounts
    /\ PROVIDER_DEFAULTS = provider_defaults(None, None)

CanCall ==
    /\ Len(user_account.transactions) < MaxTx
    /\ Len(account.transactions) < MaxTx

Apply(c, r1, r2) ==
    /\ call' = c
    /\ prev' = Snapshot
    /\ user_account' = r1.self
    /\ raised' = r1.raised
    /\ account' = r2.self
    /\ raised2' = r2.raised
    /\ returned' = NoReturn
    /\ UNCHANGED <<history, history2, holdings_copy, holdings_copy2, threads,
                   interleaved, PROVIDER_DEFAULTS>>

Deposit ==
    \E amount \in Amounts :
        /\ CanCall
        /\ Apply([NoCall EXCEPT !.op = "deposit", !.amount = amount],
                 deposit(user_account, amount), deposit2(account, amount))

Withdraw ==
    \E amount \in Amounts :
        /\ CanCall
        /\ Apply([NoCall EXCEPT !.op = "withdraw", !.amount = amount],
                 withdraw(user_account, amount), withdraw2(account, amount))

Buy ==
    \E symbol \in Symbols, quantity \in Quantities :
        /\ CanCall
        /\ Apply([NoCall EXCEPT !.op = "buy", !.symbol = symbol, !.quantity = quantity],
                 buy_shares(user_account, symbol, quantity), buy(account, symbol, quantity))

Sell ==
    \E symbol \in Symbols, quantity \in Quantities :
        /\ CanCall
        /\ Apply([NoCall EXCEPT !.op = "sell", !.symbol = symbol, !.quantity = quantity],
                 sell_shares(user_account, symbol, quantity), sell(account, symbol, quantity))

Next == Deposit \/ Withdraw \/ Buy \/ Sell

Spec == Init /\ [][Next]_vars

\* A test writes a holding straight into the holdings dict of the account
\* (account.holdings['UNKNOWN'] = 5), without any buy.
InjectHolding ==
    \E symbol \in InjectedSymbols, quantity \in InjectedQuantities :
        /\ symbol \notin DOMAIN user_account.holdings
        /\ symbol \notin DOMAIN account.holdings
        /\ call' = [NoCall EXCEPT !.op = "inject", !.symbol = symbol, !.quantity = quantity]
        /\ prev' = Snapshot
        /\ user_account' = [user_account EXCEPT !.holdings = dict_set(@, symbol, quantity)]
        /\ account' = [account EXCEPT !.holdings = dict_set(@, symbol, quantity)]
        /\ raised' = NoError
        /\ raised2' = NoError
        /\ UNCHANGED <<history, history2, holdings_copy, holdings_copy2, threads, interleaved,
                       returned, PROVIDER_DEFAULTS>>

NextInject == Next \/ InjectHolding

SpecInject == Init /\ [][NextInject]_vars

(***************************************************************************)
(* Properties.                                                             *)
(***************************************************************************)
ok(r) == r.exc = "None"

AllSymbols == Symbols \cup {upper(s) : s \in Symbols} \cup InjectedSymbols

RECURSIVE sum_quantities(_, _, _)
\* total quantity of the records of one type and one symbol
sum_quantities(txs, type, symbol) ==
    IF txs = <<>> THEN 0
    ELSE (IF Head(txs).type = type /\ Head(txs).symbol = Some(symbol)
          THEN Head(txs).quantity[1] ELSE 0)
         + sum_quantities(Tail(txs), type, symbol)

replayed_balance(txs, dep, wd, b, s) ==
    sum_amounts(txs, dep) - sum_amounts(txs, wd) - sum_amounts(txs, b) + sum_amounts(txs, s)

replayed_quantity(txs, b, s, symbol) ==
    sum_quantities(txs, b, symbol) - sum_quantities(txs, s, symbol)

no_trades(txs, b, s) == \A i \in 1..Len(txs) : txs[i].type \notin {b, s}

(***************************************************************************)
(* The caller of transaction_history(): it keeps the returned list and may *)
(* change it once, or change a record found in it.  The exploration takes  *)
(* the list after the calls on the account, not between them.              *)
(***************************************************************************)
CallerOps == {"get_transaction_history", "history_append", "history_pop",
              "history_reverse", "history_set_amount"}

CallerStep(op) ==
    /\ call' = [NoCall EXCEPT !.op = op]
    /\ prev' = Snapshot
    /\ raised' = NoError
    /\ raised2' = NoError
    /\ UNCHANGED <<holdings_copy, holdings_copy2, threads, interleaved,
                   returned, PROVIDER_DEFAULTS>>

\* history = account.get_transaction_history()
GetHistory ==
    /\ call.op \notin CallerOps
    /\ CallerStep("get_transaction_history")
    /\ history' = list_copy(get_transaction_history(user_account))
    /\ history2' = list_copy(get_transactions(account))
    /\ UNCHANGED <<user_account, account>>

\* history.append({"type": "fake_transaction"})
HistoryAppend ==
    /\ call.op = "get_transaction_history"
    /\ CallerStep("history_append")
    /\ history' = Append(history, 0)
    /\ history2' = Append(history2, 0)
    /\ UNCHANGED <<user_account, account>>

\* history.pop()
HistoryPop ==
    /\ call.op = "get_transaction_history"
    /\ history # <<>> /\ history2 # <<>>
    /\ CallerStep("history_pop")
    /\ history' = SubSeq(history, 1, Len(history) - 1)
    /\ history2' = SubSeq(history2, 1, Len(history2) - 1)
    /\ UNCHANGED <<user_account, account>>

\* history.reverse()
HistoryReverse ==
    /\ call.op = "get_transaction_history"
    /\ Len(history) > 1 /\ Len(history2) > 1
    /\ CallerStep("history_reverse")
    /\ history' = [i \in 1..Len(history) |-> history[Len(history) + 1 - i]]
    /\ history2' = [i \in 1..Len(history2) |-> history2[Len(history2) + 1 - i]]
    /\ UNCHANGED <<user_account, account>>

\* history[i]["amount"] = v  /  history[i].amount = v : the record written is
\* the object the list element refers to, which is the account's own record
HistorySetAmount ==
    \E i \in 1..Len(history), v \in WrittenAmounts :
        /\ call.op = "get_transaction_history"
        /\ i <= Len(history2)
        /\ history[i] # 0 /\ history2[i] # 0
        /\ CallerStep("history_set_amount")
        /\ user_account' = [user_account EXCEPT !.transactions[history[i]].amount = v]
        /\ account' = [account EXCEPT !.transactions[history2[i]].amount = v]
        /\ UNCHANGED <<history, history2>>

NextCaller ==
    \/ call.op \notin CallerOps /\ Next
    \/ GetHistory
    \/ HistoryAppend
    \/ HistoryPop
    \/ HistoryReverse
    \/ HistorySetAmount

SpecCaller == Init /\ [][NextCaller]_vars

\* C17: changing the list transaction_history() returned (append, remove,
\* reorder) or a record contained in it never changes what a later
\* transaction_history() or profit_or_loss() returns, in both implementations.
C17_HistoryIsIndependent ==
    call.op \in {"history_append", "history_pop", "history_reverse", "history_set_amount"} =>
        /\ get_transaction_history(user_account) = get_transaction_history(prev.user_account)
        /\ get_profit_or_loss(user_account) = get_profit_or_loss(prev.user_account)
        /\ get_transactions(account) = get_transactions(prev.account)
        /\ get_profit_loss(account) = get_profit_loss(prev.account)

(***************************************************************************)
(* The caller of get_holdings(): it keeps the returned dict and may add,   *)
(* change or delete one entry of it.  The exploration takes the dict after *)
(* the calls on the account, not between them.                             *)
(***************************************************************************)
HoldingsCallerOps == {"get_holdings", "holdings_setitem", "holdings_delitem"}

HoldingsCallerStep(c) ==
    /\ call' = c
    /\ prev' = Snapshot
    /\ raised' = NoError
    /\ raised2' = NoError
    /\ UNCHANGED <<history, history2, threads, interleaved, returned, PROVIDER_DEFAULTS>>

\* holdings_copy = account.get_holdings()
GetHoldings ==
    /\ call.op \notin HoldingsCallerOps
    /\ HoldingsCallerStep([NoCall EXCEPT !.op = "get_holdings"])
    /\ holdings_copy' = dict_copy(get_holdings(user_account))
    /\ holdings_copy2' = dict_copy(get_holdings2(account))
    /\ UNCHANGED <<user_account, account>>

\* holdings_copy[symbol] = quantity : adds the entry or changes it
HoldingsSetItem ==
    \E symbol \in WrittenSymbols, quantity \in WrittenQuantities :
        LET w == setitem(holdings_copy, user_account.holdings, symbol, quantity)
            w2 == setitem(holdings_copy2, account.holdings, symbol, quantity)
        IN  /\ call.op = "get_holdings"
            /\ HoldingsCallerStep([NoCall EXCEPT !.op = "holdings_setitem",
                                                 !.symbol = symbol, !.quantity = quantity])
            /\ holdings_copy' = w.ref
            /\ holdings_copy2' = w2.ref
            /\ user_account' = [user_account EXCEPT !.holdings = w.holdings]
            /\ account' = [account EXCEPT !.holdings = w2.holdings]

\* del holdings_copy[symbol]
HoldingsDelItem ==
    \E symbol \in DOMAIN holdings_copy.items \cap DOMAIN holdings_copy2.items :
        LET w == delitem(holdings_copy, user_account.holdings, symbol)
            w2 == delitem(holdings_copy2, account.holdings, symbol)
        IN  /\ call.op = "get_holdings"
            /\ HoldingsCallerStep([NoCall EXCEPT !.op = "holdings_delitem", !.symbol = symbol])
            /\ holdings_copy' = w.ref
            /\ holdings_copy2' = w2.ref
            /\ user_account' = [user_account EXCEPT !.holdings = w.holdings]
            /\ account' = [account EXCEPT !.holdings = w2.holdings]

NextHoldingsCaller ==
    \/ call.op \notin HoldingsCallerOps /\ Next
    \/ GetHoldings
    \/ HoldingsSetItem
    \/ HoldingsDelItem

SpecHoldingsCaller == Init /\ [][NextHoldingsCaller]_vars

\* C18: adding, changing or deleting an entry of the dict get_holdings()
\* returned changes neither the account's holdings nor what a later
\* get_holdings(), sell or get_portfolio_value() call does, in both
\* implementations.
C18_HoldingsCopyIsIndependent ==
    call.op \in {"holdings_setitem", "holdings_delitem"} =>
        /\ user_account.holdings = prev.user_account.holdings
        /\ account.holdings = prev.account.holdings
        /\ get_holdings(user_account) = get_holdings(prev.user_account)
        /\ get_holdings2(account) = get_holdings2(prev.account)
        /\ get_portfolio_value(user_account) = get_portfolio_value(prev.user_account)
        /\ get_portfolio_value2(account) = get_portfolio_value2(prev.account)
        /\ \A symbol \in Symbols, quantity \in Quantities :
               /\ sell_shares(user_account, symbol, quantity)
                      = sell_shares(prev.user_account, symbol, quantity)
               /\ sell(account, symbol, quantity) = sell(prev.account, symbol, quantity)

\* the caller changed or deleted an entry of the copy for a symbol the
\* account holds, and the copy now differs from the account's holdings
C18_Witness ==
    /\ call.op \in {"holdings_setitem", "holdings_delitem"}
    /\ call.symbol \in DOMAIN user_account.holdings
    /\ call.symbol \in DOMAIN account.holdings
    /\ holdings_copy.items # user_account.holdings
    /\ holdings_copy2.items # account.holdings

\* C1: a deposit, withdraw, buy or sell that raises leaves the account it was
\* called on exactly as it was before the call (balance, holdings, records,
\* cumulative deposits and, in output2, the next transaction id).
C1_RejectionIsAtomic ==
    /\ ~ok(raised) => user_account = prev.user_account
    /\ ~ok(raised2) => account = prev.account

C1_Witness ==
    /\ call.op = "buy"
    /\ raised.exc = "InsufficientFundsError"
    /\ raised2.msg = "Insufficient funds to buy shares"
    /\ Len(user_account.transactions) > 0
    /\ Len(account.transactions) > 0

\* C2: the cash balance equals deposits - withdrawals - buys + sells over the
\* records of transaction_history(), in both implementations.
C2_BalanceReplay ==
    /\ user_account.cash_balance =
         replayed_balance(get_transaction_history(user_account),
                          "deposit", "withdrawal", "buy", "sell")
    /\ account.balance =
         replayed_balance(get_transactions(account), "DEPOSIT", "WITHDRAWAL", "BUY", "SELL")

C5_HoldingsPositive ==
    /\ \A k \in DOMAIN user_account.holdings : user_account.holdings[k] > 0
    /\ \A k \in DOMAIN account.holdings : account.holdings[k] > 0
    /\ (call.op = "sell" /\ ok(raised)
          /\ dict_get(prev.user_account.holdings, upper(call.symbol), 0) = call.quantity)
       => upper(call.symbol) \notin DOMAIN user_account.holdings
    /\ (call.op = "sell" /\ ok(raised2)
          /\ dict_get(prev.account.holdings, call.symbol, 0) = call.quantity)
       => call.symbol \notin DOMAIN account.holdings

C5_Witness ==
    /\ call.op = "sell"
    /\ ok(raised) /\ ok(raised2)
    /\ call.quantity = 20
    /\ dict_get(prev.user_account.holdings, upper(call.symbol), 0) = 20
    /\ dict_get(prev.account.holdings, call.symbol, 0) = 20
    /\ upper(call.symbol) \notin DOMAIN user_account.holdings
    /\ call.symbol \notin DOMAIN account.holdings

\* C6: buy and sell normalize the symbol to uppercase before lookup and
\* storage in both implementations: every holdings key and every recorded
\* symbol is uppercase.
C6_SymbolsUppercase ==
    /\ \A k \in DOMAIN user_account.holdings : upper(k) = k
    /\ \A i \in 1..Len(user_account.transactions) :
          LET t == user_account.transactions[i]
          IN  t.symbol # None => upper(t.symbol[1]) = t.symbol[1]
    /\ \A k \in DOMAIN account.holdings : upper(k) = k
    /\ \A i \in 1..Len(account.transactions) :
          LET t == account.transactions[i]
          IN  t.symbol # None => upper(t.symbol[1]) = t.symbol[1]

\* The step from the state after a successful deposit(100) to the state after
\* the withdraw(100) that follows it, with no buy or sell on record.
C7_MatchedPair ==
    /\ call.op = "deposit" /\ call.amount = Float(100000)
    /\ ok(raised) /\ ok(raised2)
    /\ call'.op = "withdraw" /\ call'.amount = Float(100000)
    /\ no_trades(user_account.transactions, "buy", "sell")
    /\ no_trades(account.transactions, "BUY", "SELL")

C8_ProfitIsValueMinusDeposits ==
    /\ ok(get_profit_or_loss(user_account).raised)
    /\ ok(get_profit_loss(account).raised)
    /\ get_profit_or_loss(user_account).value
         = get_portfolio_value(user_account).value - total_deposits(user_account)
    /\ get_profit_loss(account).value
         = get_portfolio_value2(account).value - account.initial_deposit
    /\ user_account = Account_init => get_profit_or_loss(user_account).value = 0
    /\ account = Account_init2 => get_profit_loss(account).value = 0
    /\ (call.op = "withdraw" /\ ok(raised))
         => total_deposits(user_account) = total_deposits(prev.user_account)
    /\ (call.op = "withdraw" /\ ok(raised2))
         => account.initial_deposit = prev.account.initial_deposit

RECURSIVE priced_sum(_, _)
\* price x quantity summed over the held symbols the price table knows
priced_sum(h, keys) ==
    IF keys = {} THEN 0
    ELSE LET k == CHOOSE x \in keys : TRUE
         IN  (IF upper(k) \in DOMAIN prices THEN (prices[upper(k)] * h[k]) \div 10 ELSE 0)
             + priced_sum(h, keys \ {k})

\* C10: portfolio_value() never fails in either implementation: it returns
\* the balance plus price x quantity over the held symbols whose price lookup
\* succeeds (to the cent in output/accounts.py), a held symbol unknown to the
\* price table being left out of the sum.
C10_PortfolioValueNeverFails ==
    /\ ok(get_portfolio_value(user_account).raised)
    /\ get_portfolio_value(user_account).value
         = round2(user_account.cash_balance
                  + priced_sum(user_account.holdings, DOMAIN user_account.holdings))
    /\ ok(get_portfolio_value2(account).raised)
    /\ get_portfolio_value2(account).value
         = account.balance + priced_sum(account.holdings, DOMAIN account.holdings)


\* The failure kind of the specification that a raise statement of
\* output/accounts.py stands for.
kind(r) ==
    CASE r.exc = "None" -> "None"
      [] r.exc = "InsufficientFundsError" -> "InsufficientFunds"
      [] r.exc = "InsufficientSharesError" -> "InsufficientShares"
      [] r.exc = "ValueError" /\ r.msg = "Unknown symbol" -> "UnknownSymbol"
      [] r.exc = "ValueError" /\ r.msg = "Quantity must be a positive integer."
           -> "InvalidQuantity"
      [] r.exc = "ValueError" /\ r.msg \in {"Deposit amount must be a positive number.",
                                            "Withdrawal amount must be a positive number."}
           -> "InvalidAmount"
      [] OTHER -> "Other"

\* The failure kind of the specification that a raise statement of
\* output2/accounts.py stands for.
kind2(r) ==
    CASE r.exc = "None" -> "None"
      [] r.exc = "ValueError" /\ r.msg \in {"Insufficient funds for withdrawal",
                                            "Insufficient funds to buy shares"}
           -> "InsufficientFunds"
      [] r.exc = "ValueError" /\ r.msg = "Insufficient shares to sell" -> "InsufficientShares"
      [] r.exc = "ValueError" /\ r.msg = "Unknown symbol" -> "UnknownSymbol"
      [] r.exc = "ValueError" /\ r.msg \in {"Buy quantity must be positive",
                                            "Sell quantity must be positive"}
           -> "InvalidQuantity"
      [] r.exc = "ValueError" /\ r.msg \in {"Deposit amount must be positive",
                                            "Withdrawal amount must be positive"}
           -> "InvalidAmount"
      [] OTHER -> "Other"

unknown(symbol) == upper(symbol) \notin DOMAIN prices

C12_BuyCheckOrder ==
    call.op = "buy" =>
        LET valid == is_int(call.quantity) /\ call.quantity > 0
        IN  /\ call.quantity <= 0 => kind(raised) = "InvalidQuantity"
            /\ call.quantity <= 0 => kind2(raised2) = "InvalidQuantity"
            /\ (valid /\ unknown(call.symbol)) => kind(raised) = "UnknownSymbol"
            /\ (valid /\ unknown(call.symbol)) => kind2(raised2) = "UnknownSymbol"
            /\ ~ok(raised) => user_account = prev.user_account
            /\ ~ok(raised2) => account = prev.account

C12_Witness ==
    /\ call.op = "buy" /\ call.symbol = "UNKNOWN" /\ call.quantity = 10
    /\ user_account.cash_balance = 0
    /\ account.balance = 0
    /\ kind(raised) = "UnknownSymbol"
    /\ kind2(raised2) = "UnknownSymbol"


\* The exception classes a caller of output/accounts.py sees for an invalid
\* amount, an invalid quantity and an unknown symbol.
other_classes ==
    {deposit(user_account, Float(0)).raised.exc,
     buy_shares(user_account, "AAPL", 0).raised.exc,
     get_share_price("UNKNOWN").raised.exc}

\* The same for a caller of output2/accounts.py.
other_classes2 ==
    {deposit2(account, Float(0)).raised.exc,
     buy(account, "AAPL", 0).raised.exc,
     get_share_price("UNKNOWN").raised.exc}

\* C13: every failure of a call with numeric arguments is of one of the five
\* documented kinds, and in both implementations the caller can tell them
\* apart: a withdraw or buy exceeding the balance raises an exception of a
\* class other than those of InvalidAmount, InvalidQuantity and UnknownSymbol,
\* and a sell exceeding the held quantity raises one of a class other than
\* those of InvalidQuantity and UnknownSymbol.
C13_KindsDistinguishable ==
    /\ (call.op \in {"buy", "sell"} \/ is_number(call.amount))
         => (kind(raised) # "Other" /\ kind2(raised2) # "Other")
    /\ kind(raised) = "InsufficientFunds" => raised.exc \notin other_classes
    /\ kind2(raised2) = "InsufficientFunds" => raised2.exc \notin other_classes2
    /\ kind(raised) = "InsufficientShares"
         => raised.exc \notin {buy_shares(user_account, "AAPL", 0).raised.exc,
                               get_share_price("UNKNOWN").raised.exc}
    /\ kind2(raised2) = "InsufficientShares"
         => raised2.exc \notin {buy(account, "AAPL", 0).raised.exc,
                                get_share_price("UNKNOWN").raised.exc}


\* C14: a sell rejected for insufficient shares reports in its error the
\* attempted quantity and the quantity owned (0 when the symbol is not held),
\* in both implementations.
C14_InsufficientSharesReportsCounts ==
    /\ (call.op = "sell" /\ kind(raised) = "InsufficientShares")
         => raised.nums = <<call.quantity,
                            dict_get(user_account.holdings, upper(call.symbol), 0)>>
    /\ (call.op = "sell" /\ kind2(raised2) = "InsufficientShares")
         => raised2.nums = <<call.quantity,
                             dict_get(account.holdings, call.symbol, 0)>>


\* C15: buy and sell reject a quantity that is zero, negative or not an
\* integer (such as 1.5 or 2.5) with InvalidQuantity, leaving balance,
\* holdings and transactions unchanged, in both implementations.
C15_QuantityMustBePositiveInteger ==
    (call.op \in {"buy", "sell"} /\ (call.quantity <= 0 \/ ~is_int(call.quantity))) =>
        /\ kind(raised) = "InvalidQuantity"
        /\ user_account = prev.user_account
        /\ kind2(raised2) = "InvalidQuantity"
        /\ account = prev.account

\* C16: deposit and withdraw reject an amount that is zero, negative or not
\* a number (a string, None) with InvalidAmount, leaving the balance
\* unchanged and recording no transaction, in both implementations.
C16_AmountMustBePositiveNumber ==
    (call.op \in {"deposit", "withdraw"} /\ (~is_number(call.amount) \/ call.amount.v <= 0)) =>
        /\ kind(raised) = "InvalidAmount"
        /\ user_account.cash_balance = prev.user_account.cash_balance
        /\ user_account.transactions = prev.user_account.transactions
        /\ kind2(raised2) = "InvalidAmount"
        /\ account.balance = prev.account.balance
        /\ account.transactions = prev.account.transactions

\* the type of the record that a call of the operation op appends
record_type(op) ==
    CASE op = "deposit" -> "deposit"
      [] op = "withdraw" -> "withdrawal"
      [] op = "buy" -> "buy"
      [] op = "sell" -> "sell"

record_type2(op) ==
    CASE op = "deposit" -> "DEPOSIT"
      [] op = "withdraw" -> "WITHDRAWAL"
      [] op = "buy" -> "BUY"
      [] op = "sell" -> "SELL"

\* txs is old with exactly one record of the given type added at the end
appended_one(txs, old, type) ==
    /\ Len(txs) = Len(old) + 1
    /\ SubSeq(txs, 1, Len(old)) = old
    /\ txs[Len(txs)].type = type

\* C19: a deposit, withdraw, buy or sell that succeeds appends exactly one
\* record, of its own type, at the end of the transactions and leaves the
\* records before it as they were and in their order; one that is rejected
\* leaves the transactions as they were.  In both implementations.
C19_TransactionsAppendOnly ==
    call.op \in {"deposit", "withdraw", "buy", "sell"} =>
        /\ ok(raised) => appended_one(user_account.transactions,
                                      prev.user_account.transactions, record_type(call.op))
        /\ ~ok(raised) => user_account.transactions = prev.user_account.transactions
        /\ ok(raised2) => appended_one(account.transactions,
                                       prev.account.transactions, record_type2(call.op))
        /\ ~ok(raised2) => account.transactions = prev.account.transactions

\* a sell succeeded on an account that already had two records of other
\* types, which are still the first two records, in the same order
C19_Witness ==
    /\ call.op = "sell"
    /\ ok(raised) /\ ok(raised2)
    /\ Len(user_account.transactions) = 3
    /\ Len(account.transactions) = 3
    /\ user_account.transactions[1].type = "deposit"
    /\ user_account.transactions[2].type = "buy"
    /\ account.transactions[1].type = "DEPOSIT"
    /\ account.transactions[2].type = "BUY"

\* C20: every record of the transactions has an amount greater than zero,
\* in both implementations.
C20_RecordedAmountsPositive ==
    /\ \A i \in 1..Len(user_account.transactions) : user_account.transactions[i].amount > 0
    /\ \A i \in 1..Len(account.transactions) : account.transactions[i].amount > 0

\* the shape of one record: cash holds the types of the records of a deposit
\* or withdrawal, trade those of a buy or sell
well_shaped(t, cash, trade) ==
    /\ t.type \in cash \cup trade
    /\ t.type \in trade =>
           /\ t.symbol # None /\ t.quantity # None /\ t.price_per_share # None
           /\ t.amount = times(t.price_per_share[1], t.quantity[1])
    /\ t.type \in cash =>
           t.symbol = None /\ t.quantity = None /\ t.price_per_share = None

\* C21: every record is a deposit, withdrawal, buy or sell; a buy or sell
\* record has a symbol, a quantity and a price per share with
\* amount = price per share x quantity; a deposit or withdrawal record has
\* none of the three.  In both implementations.
C21_RecordShape ==
    /\ \A i \in 1..Len(user_account.transactions) :
           well_shaped(user_account.transactions[i], {"deposit", "withdrawal"}, {"buy", "sell"})
    /\ \A i \in 1..Len(account.transactions) :
           well_shaped(account.transactions[i], {"DEPOSIT", "WITHDRAWAL"}, {"BUY", "SELL"})

\* both accounts hold a deposit record and a buy record of two shares
C21_Witness ==
    /\ Len(user_account.transactions) >= 2
    /\ Len(account.transactions) >= 2
    /\ user_account.transactions[1].type = "deposit"
    /\ user_account.transactions[2].type = "buy"
    /\ user_account.transactions[2].quantity = Some(20)
    /\ account.transactions[1].type = "DEPOSIT"
    /\ account.transactions[2].type = "BUY"
    /\ account.transactions[2].quantity = Some(20)

\* C22: a deposit of a that succeeds raises the cash balance by a, raises
\* the cumulative deposits by a, appends one deposit record of amount a and
\* leaves the holdings as they were, in both implementations.
C22_DepositEffect ==
    call.op = "deposit" =>
        /\ ok(raised) =>
               /\ user_account.cash_balance = prev.user_account.cash_balance + call.amount.v
               /\ total_deposits(user_account)
                      = total_deposits(prev.user_account) + call.amount.v
               /\ appended_one(user_account.transactions,
                               prev.user_account.transactions, "deposit")
               /\ user_account.transactions[Len(user_account.transactions)].amount
                      = call.amount.v
               /\ user_account.holdings = prev.user_account.holdings
        /\ ok(raised2) =>
               /\ account.balance = prev.account.balance + call.amount.v
               /\ account.initial_deposit = prev.account.initial_deposit + call.amount.v
               /\ appended_one(account.transactions, prev.account.transactions, "DEPOSIT")
               /\ account.transactions[Len(account.transactions)].amount = call.amount.v
               /\ account.holdings = prev.account.holdings

\* the amount a call adds to the sum of the successfully deposited amounts
deposited(c, r) == IF c.op = "deposit" /\ ok(r) THEN c.amount.v ELSE 0

\* C23: the cumulative deposits are the sum of the amounts successfully
\* deposited: a successful deposit of a raises them by a, and withdraw, buy,
\* sell and every rejected call leave them as they were (so they never
\* decrease).  output/accounts.py recomputes them from the deposit records,
\* output2/accounts.py keeps them in initial_deposit.
C23_CumulativeDeposits ==
    call.op \in {"deposit", "withdraw", "buy", "sell"} =>
        /\ total_deposits(user_account)
               = total_deposits(prev.user_account) + deposited(call, raised)
        /\ account.initial_deposit
               = prev.account.initial_deposit + deposited(call, raised2)

\* C24: with the fixed prices, buying and selling change no value: in every
\* state portfolio_value() is the total deposits minus the total withdrawals
\* and profit_or_loss() is minus the total withdrawals, in both
\* implementations.  The totals are those of the records, and for the
\* deposits of output2/accounts.py the initial_deposit counter.
C24_TradingIsValueNeutral ==
    /\ get_portfolio_value(user_account).value
           = total_deposits(user_account) - sum_amounts(user_account.transactions, "withdrawal")
    /\ get_profit_or_loss(user_account).value
           = 0 - sum_amounts(user_account.transactions, "withdrawal")
    /\ ok(get_portfolio_value2(account).raised)
    /\ get_portfolio_value2(account).value
           = account.initial_deposit - sum_amounts(account.transactions, "WITHDRAWAL")
    /\ get_profit_loss(account).value
           = 0 - sum_amounts(account.transactions, "WITHDRAWAL")

\* a buy of a symbol of the price table with a positive whole quantity
valid_buy(c) ==
    /\ c.op = "buy"
    /\ ok(get_share_price(c.symbol).raised)
    /\ c.quantity > 0 /\ is_int(c.quantity)

cost(c) == times(get_share_price(c.symbol).price, c.quantity)

C25_WitnessWithdraw ==
    /\ call.op = "withdraw"
    /\ ok(raised) /\ ok(raised2)
    /\ call.amount.v = prev.user_account.cash_balance
    /\ call.amount.v = prev.account.balance
    /\ user_account.cash_balance = 0
    /\ account.balance = 0

(***************************************************************************)
(* The calls of test_get_portfolio_value and test_get_profit_or_loss of    *)
(* output/test_accounts.py, with the arguments those tests use, in any     *)
(* order.                                                                  *)
(***************************************************************************)
TestDeposit ==
    \E amount \in TestAmounts :
        /\ CanCall
        /\ Apply([NoCall EXCEPT !.op = "deposit", !.amount = amount],
                 deposit(user_account, amount), deposit2(account, amount))

TestWithdraw ==
    \E amount \in TestAmounts :
        /\ CanCall
        /\ Apply([NoCall EXCEPT !.op = "withdraw", !.amount = amount],
                 withdraw(user_account, amount), withdraw2(account, amount))

TestBuy ==
    \E symbol \in TestSymbols, quantity \in TestQuantities :
        /\ CanCall
        /\ Apply([NoCall EXCEPT !.op = "buy", !.symbol = symbol, !.quantity = quantity],
                 buy_shares(user_account, symbol, quantity), buy(account, symbol, quantity))

TestSell ==
    \E symbol \in TestSymbols, quantity \in TestQuantities :
        /\ CanCall
        /\ Apply([NoCall EXCEPT !.op = "sell", !.symbol = symbol, !.quantity = quantity],
                 sell_shares(user_account, symbol, quantity), sell(account, symbol, quantity))

NextTests == TestDeposit \/ TestWithdraw \/ TestBuy \/ TestSell

SpecTests == Init /\ [][NextTests]_vars

\* test_get_portfolio_value: buy_shares("AAPL", 10) right after deposit(1000.0)
BuyTenAfterDeposit ==
    /\ call = [NoCall EXCEPT !.op = "buy", !.symbol = "AAPL", !.quantity = 100]
    /\ Len(prev.user_account.transactions) = 1
    /\ prev.user_account.transactions[1].type = "deposit"
    /\ prev.user_account.cash_balance = 1000000

\* test_get_profit_or_loss: withdraw(500.0) after deposit(1000.0) and
\* buy_shares("AAPL", 5), the cash being 250
WithdrawAfterBuyFive ==
    /\ call = [NoCall EXCEPT !.op = "withdraw", !.amount = Float(500000)]
    /\ Len(prev.user_account.transactions) = 2
    /\ prev.user_account.transactions[1].type = "deposit"
    /\ prev.user_account.transactions[1].amount = 1000000
    /\ prev.user_account.transactions[2].type = "buy"
    /\ prev.user_account.holdings = dict_set(EmptyDict, "AAPL", 50)
    /\ prev.user_account.cash_balance = 250000

C26_WitnessBuy ==
    /\ BuyTenAfterDeposit
    /\ raised.exc = "InsufficientFundsError"
    /\ user_account.cash_balance = 1000000

(***************************************************************************)
(* The UI callbacks of app.py run on one module-level account, each in a   *)
(* thread of its own, with no lock: a withdraw or buy can be suspended     *)
(* after its checks and before its first write.  A call whose checks raise *)
(* is over at once.  Deposits are made one at a time.                      *)
(***************************************************************************)
checked == {t \in Threads : threads[t].pc = "checked"}

CanBegin ==
    /\ Len(user_account.transactions) + Cardinality(checked) < MaxTx
    /\ Len(account.transactions) + Cardinality(checked) < MaxTx

\* a thread runs the checks of c; r1 and r2 are what the whole call would do
\* in the current state
Begin(t, c, r1, r2) ==
    IF ~ok(r1.raised) /\ ~ok(r2.raised)
    THEN Apply(c, r1, r2)
    ELSE /\ threads' = [threads EXCEPT ![t] = [pc |-> "checked", call |-> c,
                                               raised |-> r1.raised,
                                               raised2 |-> r2.raised]]
         /\ UNCHANGED <<user_account, account, call, raised, raised2, prev, history,
                        history2, holdings_copy, holdings_copy2, interleaved,
                        returned, PROVIDER_DEFAULTS>>

\* withdraw_funds(amount) / withdraw(amount) up to the funds check
BeginWithdraw ==
    \E t \in Threads, amount \in ThreadAmounts :
        /\ threads[t].pc = "idle"
        /\ CanBegin
        /\ Begin(t, [NoCall EXCEPT !.op = "withdraw", !.amount = amount],
                 withdraw(user_account, amount), withdraw2(account, amount))

\* buy_shares_ui(symbol, quantity) / buy(symbol, quantity) up to the funds check
BeginBuy ==
    \E t \in Threads, symbol \in ThreadSymbols, quantity \in ThreadQuantities :
        /\ threads[t].pc = "idle"
        /\ CanBegin
        /\ Begin(t, [NoCall EXCEPT !.op = "buy", !.symbol = symbol, !.quantity = quantity],
                 buy_shares(user_account, symbol, quantity), buy(account, symbol, quantity))

\* the rest of the call of a thread that passed the checks
Finish ==
    \E t \in Threads :
        LET th == threads[t]
            c == th.call
        IN  /\ th.pc = "checked"
            /\ call' = c
            /\ prev' = Snapshot
            /\ raised' = th.raised
            /\ raised2' = th.raised2
            /\ user_account' =
                  IF ~ok(th.raised) THEN user_account
                  ELSE IF c.op = "withdraw" THEN withdraw_update(user_account, c.amount)
                  ELSE buy_shares_update(user_account, c.symbol, c.quantity)
            /\ account' =
                  IF ~ok(th.raised2) THEN account
                  ELSE IF c.op = "withdraw" THEN withdraw2_update(account, c.amount)
                  ELSE buy_update(account, c.symbol, c.quantity)
            /\ threads' = [threads EXCEPT ![t] = IdleThread]
            /\ interleaved' = (interleaved \/ checked # {t})
            /\ returned' = NoReturn
            /\ UNCHANGED <<history, history2, holdings_copy, holdings_copy2, PROVIDER_DEFAULTS>>

NextThreads ==
    \/ CanBegin /\ Deposit
    \/ BeginWithdraw
    \/ BeginBuy
    \/ Finish

SpecThreads == Init /\ [][NextThreads]_vars

C28_TransactionIds ==
    /\ \A i \in 1..Len(account.transactions) : account.transactions[i].transaction_id = i
    /\ \A i, j \in 1..Len(account.transactions) :
           i < j => account.transactions[i].transaction_id
                      < account.transactions[j].transaction_id
    /\ account.next_transaction_id = Len(account.transactions) + 1
    /\ ~ok(raised2) => account.next_transaction_id = prev.account.next_transaction_id

\* a call was rejected on an account with two records, and the next id is 3
C28_Witness ==
    /\ call.op \in {"withdraw", "buy", "sell"}
    /\ ~ok(raised2)
    /\ Len(account.transactions) = 2
    /\ account.transactions[2].transaction_id = 2
    /\ account.next_transaction_id = 3

(***************************************************************************)
(* Calls of get_share_price, made at any moment of the life of the         *)
(* accounts.  Both modules define the same function.                       *)
(***************************************************************************)
GetSharePrice ==
    \E symbol \in OracleSymbols :
        LET looked == get_share_price(symbol)
        IN  /\ call' = [NoCall EXCEPT !.op = "get_share_price", !.symbol = symbol]
            /\ prev' = Snapshot
            /\ raised' = looked.raised
            /\ raised2' = looked.raised
            /\ returned' = IF ok(looked.raised) THEN Return(looked.price)
                           ELSE [raised |-> looked.raised, value |-> None]
            /\ UNCHANGED <<user_account, account, history, history2,
                           holdings_copy, holdings_copy2, threads, interleaved, PROVIDER_DEFAULTS>>

NextOracle == Next \/ GetSharePrice

SpecOracle == Init /\ [][NextOracle]_vars

\* C29: get_share_price returns 150 for AAPL, 2800 for GOOGL and 700 for
\* TSLA in any letter case, whatever the state of the accounts, fails with
\* UnknownSymbol for every other symbol, and leaves the accounts as they were.
C29_PriceOracle ==
    call.op = "get_share_price" =>
        /\ user_account = prev.user_account
        /\ account = prev.account
        /\ call.symbol \in {"AAPL", "aapl", "Aapl"} => returned = Return(150000)
        /\ call.symbol \in {"GOOGL", "googl"} => returned = Return(2800000)
        /\ call.symbol \in {"TSLA", "tsla"} => returned = Return(700000)
        /\ call.symbol \in {"UNKNOWN", "unknown", "MSFT"} =>
               /\ kind(returned.raised) = "UnknownSymbol"
               /\ returned.value = None

\* the price of "aapl" was looked up on accounts that hold AAPL shares
C29_Witness ==
    /\ call = [NoCall EXCEPT !.op = "get_share_price", !.symbol = "aapl"]
    /\ returned = Return(150000)
    /\ "AAPL" \in DOMAIN user_account.holdings
    /\ account.holdings # EmptyDict

(***************************************************************************)
(* Calls of the readers, made at any moment on both accounts.  A reader    *)
(* has no assignment to self: it hands back the account it was given and   *)
(* its result.                                                             *)
(***************************************************************************)
ReaderOps == {"get_holdings", "get_portfolio_value", "get_profit_or_loss",
              "get_transaction_history"}

\* a variant that empties the holdings while reading
reader_clearing_holdings(self, result) ==
    [self |-> [self EXCEPT !.holdings = EmptyDict], result |-> result]

reader(self, result) == [self |-> self, result |-> result]

ReaderStep(r1, r2, e1, e2) ==
    /\ prev' = Snapshot
    /\ user_account' = r1.self
    /\ account' = r2.self
    /\ raised' = e1
    /\ raised2' = e2
    /\ returned' = Return([output |-> r1.result, output2 |-> r2.result])
    /\ UNCHANGED <<history, history2, holdings_copy, holdings_copy2, threads,
                   interleaved, PROVIDER_DEFAULTS>>

ReadHoldings ==
    /\ call' = [NoCall EXCEPT !.op = "get_holdings"]
    /\ ReaderStep(reader(user_account, get_holdings(user_account)),
                  reader(account, get_holdings2(account)), NoError, NoError)

ReadPortfolioValue ==
    /\ call' = [NoCall EXCEPT !.op = "get_portfolio_value"]
    /\ ReaderStep(reader(user_account, get_portfolio_value(user_account)),
                  reader(account, get_portfolio_value2(account)),
                  get_portfolio_value(user_account).raised,
                  get_portfolio_value2(account).raised)

ReadProfitOrLoss ==
    /\ call' = [NoCall EXCEPT !.op = "get_profit_or_loss"]
    /\ ReaderStep(reader(user_account, get_profit_or_loss(user_account)),
                  reader(account, get_profit_loss(account)),
                  get_profit_or_loss(user_account).raised,
                  get_profit_loss(account).raised)

ReadTransactionHistory ==
    /\ call' = [NoCall EXCEPT !.op = "get_transaction_history"]
    /\ ReaderStep(reader(user_account, get_transaction_history(user_account)),
                  reader(account, get_transactions(account)), NoError, NoError)

NextReaders ==
    \/ Next
    \/ ReadHoldings
    \/ ReadPortfolioValue
    \/ ReadProfitOrLoss
    \/ ReadTransactionHistory

SpecReaders == Init /\ [][NextReaders]_vars

InitFactory ==
    /\ InitAccounts
    /\ \E d \in DeepseekKeys, g \in GeminiKeys : PROVIDER_DEFAULTS = provider_defaults(d, g)

FactoryStep(r) ==
    /\ raised' = r.raised
    /\ returned' = r
    /\ UNCHANGED <<user_account, account, raised2, prev, history, history2,
                   holdings_copy, holdings_copy2, threads, interleaved, PROVIDER_DEFAULTS>>

CallAgent ==
    \E model \in Models, api_key \in ApiKeys, base_url \in BaseUrls :
        /\ call' = [op |-> "agent", model |-> model, api_key |-> api_key,
                    base_url |-> base_url, model_info |-> None]
        /\ FactoryStep(agent(model, api_key, base_url))

CallChatOpenAI ==
    \E model \in Models, api_key \in ApiKeys, base_url \in BaseUrls :
        /\ call' = [op |-> "chatopenai", model |-> model, api_key |-> api_key,
                    base_url |-> base_url, model_info |-> None]
        /\ FactoryStep(chatopenai(model, api_key, base_url))

CallOpenAIChatCompletionsClient ==
    \E model \in Models, api_key \in ApiKeys, base_url \in BaseUrls,
       model_info \in ModelInfos :
        /\ call' = [op |-> "openaichatcompletionsclient", model |-> model,
                    api_key |-> api_key, base_url |-> base_url, model_info |-> model_info]
        /\ FactoryStep(openaichatcompletionsclient(model, api_key, base_url, model_info))

NextFactory == CallAgent \/ CallChatOpenAI \/ CallOpenAIChatCompletionsClient

SpecFactory == InitFactory /\ [][NextFactory]_vars

(***************************************************************************)
(* Claims about the factories.                                             *)
(***************************************************************************)
FactoryOps == {"agent", "chatopenai", "openaichatcompletionsclient"}

is_gpt(model) == startswith(lower(model), <<"g", "p", "t">>)

is_deepseek(model) == startswith(lower(model), <<"d", "e", "e", "p", "s", "e", "e", "k">>)

is_gemini(model) == startswith(lower(model), <<"g", "e", "m", "i", "n", "i">>)

non_empty(x) == x # None /\ x # <<"">>

FactoryBuilt == call.op \in FactoryOps /\ returned.raised = NoError /\ returned.value # None

\* C31: for a non-GPT model, an api_key or a base_url that the caller passed
\* is the one the constructed client has, also when only one of the two is
\* passed and the model name has a known provider prefix.
C31_ExplicitOverridesDefaults ==
    (FactoryBuilt /\ ~is_gpt(call.model)) =>
        LET client == returned.value[1].client
        IN  /\ client # None
            /\ non_empty(call.api_key) => client[1].api_key = call.api_key
            /\ non_empty(call.base_url) => client[1].base_url = call.base_url

\* C32: a model_info passed to openaichatcompletionsclient is the model_info
\* of the constructed client, as in the documented example (deepseek-chat,
\* no api_key and no base_url, json_output and structured_output True).
C32_ModelInfoIsTheCallers ==
    (FactoryBuilt /\ call.op = "openaichatcompletionsclient" /\ call.model_info # None) =>
        returned.value[1].model_info = call.model_info

\* C33: for a gemini model with no api_key and no base_url passed and the
\* Gemini key configured, openaichatcompletionsclient returns a client with
\* the Gemini key and base URL instead of raising.
C33_GeminiIsSupported ==
    (/\ call.op = "openaichatcompletionsclient"
     /\ is_gemini(call.model)
     /\ call.api_key = None
     /\ call.base_url = None
     /\ non_empty(PROVIDER_DEFAULTS.gemini[1])) =>
        /\ returned.raised = NoError
        /\ returned.value # None
        /\ returned.value[1].client =
               Some([api_key |-> PROVIDER_DEFAULTS.gemini[1],
                     base_url |-> PROVIDER_DEFAULTS.gemini[2]])

\* the providers a factory looks the model name up in
providers(op) ==
    IF op = "openaichatcompletionsclient" THEN {"deepseek"} ELSE {"deepseek", "gemini"}

\* the credentials after the provider-prefix lookup of the factory op
effective_credentials(op, model, api_key, base_url) ==
    IF api_key # None /\ base_url # None THEN <<api_key, base_url>>
    ELSE IF is_deepseek(model) /\ "deepseek" \in providers(op) THEN PROVIDER_DEFAULTS.deepseek
    ELSE IF is_gemini(model) /\ "gemini" \in providers(op) THEN PROVIDER_DEFAULTS.gemini
    ELSE <<api_key, base_url>>

WellFormedDeposit ==
    \E v \in WellFormedAmountNumbers :
        /\ CanCall
        /\ Apply([NoCall EXCEPT !.op = "deposit", !.amount = Float(v)],
                 deposit(user_account, Float(v)), deposit2(account, Float(v)))

WellFormedWithdraw ==
    \E v \in WellFormedAmountNumbers :
        /\ CanCall
        /\ Apply([NoCall EXCEPT !.op = "withdraw", !.amount = Float(v)],
                 withdraw(user_account, Float(v)), withdraw2(account, Float(v)))

WellFormedBuy ==
    \E symbol \in WellFormedSymbols, quantity \in WellFormedQuantities :
        /\ CanCall
        /\ Apply([NoCall EXCEPT !.op = "buy", !.symbol = symbol, !.quantity = quantity],
                 buy_shares(user_account, symbol, quantity), buy(account, symbol, quantity))

WellFormedSell ==
    \E symbol \in WellFormedSymbols, quantity \in WellFormedQuantities :
        /\ CanCall
        /\ Apply([NoCall EXCEPT !.op = "sell", !.symbol = symbol, !.quantity = quantity],
                 sell_shares(user_account, symbol, quantity), sell(account, symbol, quantity))

NextWellFormed == WellFormedDeposit \/ WellFormedWithdraw \/ WellFormedBuy \/ WellFormedSell

SpecWellFormed == Init /\ [][NextWellFormed]_vars

\* the kind of a record of output/accounts.py in the words of output2
transaction_kind(type) ==
    CASE type = "deposit" -> "DEPOSIT"
      [] type = "withdrawal" -> "WITHDRAWAL"
      [] type = "buy" -> "BUY"
      [] type = "sell" -> "SELL"
      [] OTHER -> type

except_matches(r, classes) == r.exc \in classes

Handled(r, caught, success) ==
    IF r.raised = NoError
    THEN [self |-> r.self, message |-> success, escaped |-> NoError]
    ELSE IF except_matches(r.raised, caught)
    THEN [self |-> r.self, message |-> <<"Error: ", r.raised.msg>>, escaped |-> NoError]
    ELSE [self |-> r.self, message |-> <<>>, escaped |-> r.raised]

\* a variant of withdraw_funds with "except ValueError" alone
withdraw_funds_except_value_error(self, amount) ==
    Handled(withdraw(self, amount), {"ValueError"},
            <<"Withdrawal of $", amount.v, " successful.">>)

deposit_funds(self, amount) ==
    Handled(deposit(self, amount), {"ValueError"},
            <<"Deposit of $", amount.v, " successful.">>)

withdraw_funds(self, amount) ==
    Handled(withdraw(self, amount), {"ValueError", "InsufficientFundsError"},
            <<"Withdrawal of $", amount.v, " successful.">>)

buy_shares_ui(self, symbol, quantity) ==
    Handled(buy_shares(self, symbol, quantity), {"ValueError", "InsufficientFundsError"},
            <<"Bought ", quantity, " shares of ", symbol, ".">>)

sell_shares_ui(self, symbol, quantity) ==
    Handled(sell_shares(self, symbol, quantity), {"ValueError", "InsufficientSharesError"},
            <<"Sold ", quantity, " shares of ", symbol, ".">>)

\* float(amount) of a number: the same value as a float
float(amount) == Float(amount.v)

\* int(quantity) of a number: the fraction is cut off, towards zero
int(quantity) ==
    IF quantity >= 0 THEN (quantity \div 10) * 10 ELSE 0 - (((0 - quantity) \div 10) * 10)

app_deposit(self, amount) ==
    LET amount_val == float(amount)
    IN  Handled(deposit2(self, amount_val), {"ValueError"},
                <<"Deposited $", amount_val.v, " successfully.">>)

app_withdraw(self, amount) ==
    LET amount_val == float(amount)
    IN  Handled(withdraw2(self, amount_val), {"ValueError"},
                <<"Withdrew $", amount_val.v, " successfully.">>)

app_buy(self, symbol, quantity) ==
    LET qty == int(quantity)
    IN  Handled(buy(self, symbol, qty), {"ValueError"},
                <<"Bought ", qty, " shares of ", symbol, " successfully.">>)

app_sell(self, symbol, quantity) ==
    LET qty == int(quantity)
    IN  Handled(sell(self, symbol, qty), {"ValueError"},
                <<"Sold ", qty, " shares of ", symbol, " successfully.">>)

\* the numbers a gr.Number or a gr.Slider passes to a handler
UIAmounts == {Float(v) : v \in AmountNumbers}

UIOps == {"deposit_funds", "withdraw_funds", "buy_shares_ui", "sell_shares_ui"}

\* one click in each of the two apps with the same inputs: r1 and r2 are what
\* the Account operations did, h1 and h2 what the handlers made of it
Click(r1, r2, h1, h2) ==
    /\ prev' = Snapshot
    /\ user_account' = h1.self
    /\ raised' = r1.raised
    /\ account' = h2.self
    /\ raised2' = r2.raised
    /\ returned' = Return([output |-> [message |-> h1.message, escaped |-> h1.escaped],
                           output2 |-> [message |-> h2.message, escaped |-> h2.escaped]])
    /\ UNCHANGED <<history, history2, holdings_copy, holdings_copy2, threads,
                   interleaved, PROVIDER_DEFAULTS>>

ClickDeposit ==
    \E amount \in UIAmounts :
        /\ CanCall
        /\ call' = [NoCall EXCEPT !.op = "deposit_funds", !.amount = amount]
        /\ Click(deposit(user_account, amount), deposit2(account, float(amount)),
                 deposit_funds(user_account, amount), app_deposit(account, amount))

ClickWithdraw ==
    \E amount \in UIAmounts :
        /\ CanCall
        /\ call' = [NoCall EXCEPT !.op = "withdraw_funds", !.amount = amount]
        /\ Click(withdraw(user_account, amount), withdraw2(account, float(amount)),
                 withdraw_funds(user_account, amount), app_withdraw(account, amount))

ClickBuy ==
    \E symbol \in Symbols, quantity \in Quantities :
        /\ CanCall
        /\ call' = [NoCall EXCEPT !.op = "buy_shares_ui", !.symbol = symbol,
                                  !.quantity = quantity]
        /\ Click(buy_shares(user_account, symbol, quantity),
                 buy(account, symbol, int(quantity)),
                 buy_shares_ui(user_account, symbol, quantity),
                 app_buy(account, symbol, quantity))

ClickSell ==
    \E symbol \in Symbols, quantity \in Quantities :
        /\ CanCall
        /\ call' = [NoCall EXCEPT !.op = "sell_shares_ui", !.symbol = symbol,
                                  !.quantity = quantity]
        /\ Click(sell_shares(user_account, symbol, quantity),
                 sell(account, symbol, int(quantity)),
                 sell_shares_ui(user_account, symbol, quantity),
                 app_sell(account, symbol, quantity))

NextUI == ClickDeposit \/ ClickWithdraw \/ ClickBuy \/ ClickSell

SpecUI == Init /\ [][NextUI]_vars

is_error_message(message) == message # <<>> /\ message[1] = "Error: "

is_success_message(message) == message # <<>> /\ message[1] # "Error: "

\* C36: whatever the Account operation raises, nothing leaves the handler;
\* a failure is returned as a message beginning with "Error:" and the
\* account is as before the click; a success message is returned only when
\* the operation was applied.
C36_HandlersCatchEveryFailure ==
    call.op \in UIOps =>
        LET out == returned.value[1].output
            out2 == returned.value[1].output2
        IN  /\ out.escaped = NoError
            /\ out2.escaped = NoError
            /\ raised # NoError =>
                   is_error_message(out.message) /\ user_account = prev.user_account
            /\ raised2 # NoError =>
                   is_error_message(out2.message) /\ account = prev.account
            /\ is_success_message(out.message) =>
                   /\ raised = NoError
                   /\ Len(user_account.transactions) = Len(prev.user_account.transactions) + 1
            /\ is_success_message(out2.message) =>
                   /\ raised2 = NoError
                   /\ Len(account.transactions) = Len(prev.account.transactions) + 1

\* a withdrawal of more than the balance of an account that holds money:
\* output raises InsufficientFundsError, output2 ValueError, both handlers
\* return an error message
C36_Witness ==
    /\ call.op = "withdraw_funds"
    /\ prev.user_account.cash_balance > 0
    /\ raised.exc = "InsufficientFundsError"
    /\ raised2.exc = "ValueError"
    /\ is_error_message(returned.value[1].output.message)
    /\ is_error_message(returned.value[1].output2.message)
    /\ user_account = prev.user_account

(***************************************************************************)
(* create_account of output2/app.py: the shared account is replaced by a   *)
(* new Account.  output/app.py has no such handler.                        *)
(***************************************************************************)
\* a variant without the "global account" statement: the new Account is
\* bound to a local name and the shared account stays
create_account_without_global ==
    [account |-> account, message |-> <<"Account created successfully!">>]

create_account ==
    [account |-> Account_init2, message |-> <<"Account created successfully!">>]

ClickCreateAccount ==
    /\ call' = [NoCall EXCEPT !.op = "create_account"]
    /\ prev' = Snapshot
    /\ account' = create_account.account
    /\ raised' = NoError
    /\ raised2' = NoError
    /\ returned' = Return([output |-> [message |-> <<>>, escaped |-> NoError],
                           output2 |-> [message |-> create_account.message,
                                        escaped |-> NoError]])
    /\ UNCHANGED <<user_account, history, history2, holdings_copy, holdings_copy2,
                   threads, interleaved, PROVIDER_DEFAULTS>>

NextReset == ClickDeposit \/ ClickWithdraw \/ ClickBuy \/ ClickSell \/ ClickCreateAccount

SpecReset == Init /\ [][NextReset]_vars

\* the state test_initial_state of output2/test_accounts.py expects
is_initial_state(self) ==
    /\ self.balance = 0
    /\ self.holdings = EmptyDict
    /\ self.transactions = <<>>
    /\ self.initial_deposit = 0
    /\ self.next_transaction_id = 1

\* C37: after create_account(), whatever was done before, the shared account
\* of output2/app.py is in the initial state, its portfolio value and
\* profit/loss are 0, and the next operation acts on the fresh account: a
\* deposit that is accepted leaves the amount as balance and as cumulative
\* deposits and one record with id 1, any other click leaves it initial.
C37_CreateAccountResets ==
    [][/\ call'.op = "create_account" =>
              /\ is_initial_state(account')
              /\ get_portfolio_value2(account') = [raised |-> NoError, value |-> 0]
              /\ get_profit_loss(account') = [raised |-> NoError, value |-> 0]
       /\ (call.op = "create_account" /\ call'.op \in UIOps) =>
              IF call'.op = "deposit_funds" /\ call'.amount.v > 0
              THEN /\ account'.balance = call'.amount.v
                   /\ account'.initial_deposit = call'.amount.v
                   /\ account'.holdings = EmptyDict
                   /\ Len(account'.transactions) = 1
                   /\ account'.transactions[1].transaction_id = 1
                   /\ account'.transactions[1].amount = call'.amount.v
                   /\ get_profit_loss(account').value = 0
              ELSE is_initial_state(account')]_vars

\* create_account() on an account that holds shares and has records
C37_Witness ==
    /\ call.op = "create_account"
    /\ prev.account.holdings # EmptyDict
    /\ Len(prev.account.transactions) >= 2
    /\ prev.account.balance > 0
    /\ is_initial_state(account)
    /\ user_account.transactions # <<>>

====
